---- MODULE Spec2Model ----
(***************************************************************************)
(* State-machine model of the trading loop of master3.py: connect with     *)
(* bounded retry, one authorize round trip, the placement loop with the    *)
(* growing stake, the concurrent settlement monitors that share the one    *)
(* websocket, and the teardown.                                            *)
(*                                                                         *)
(* Money is held in integer cents (100 == 1.00).  The third-party          *)
(* websocket and the venue behind it are the environment: a request that   *)
(* was sent waits in `pending`, the venue answers requests in order, the   *)
(* answer that recv will return next is in `inbox` (answers behind it are  *)
(* delivered when it has been read), and recv consumes it.  send and recv  *)
(* may raise at any call.                                                  *)
(***************************************************************************)
EXTENDS Integers, Sequences, FiniteSets

\* ---------------------------------------------------------------- bounds
\* num_trades ranges over 1..MaxTrades (1000 in the source); 3 reaches the
\* three-request scenario of the stake schedule.
MaxTrades == 3
\* trade_interval ranges over 1..MaxInterval (5 in the source).
MaxInterval == 2
\* placements in one run that the venue may answer without a countable
\* contract identifier.
MaxFailures == 1
\* status replies in one run that may report "not sold yet".
MaxOpens == 1

\* base stakes tried, in cents; 10000 is base_amount = 100 of the source.
BaseAmounts == {10, 25, 125, 10000}
\* contract identifiers the venue may issue; 0 is the falsy one.
Ids == {0, 1, 2}

\* ------------------------------------------------------ program constants
retry_attempts == 3
\* increase_rate = 0.02, in hundredths
increase_rate == 2

None == -1

\* ------------------------------------------------------------- rounding
\* round(x * (1 + increase_rate), 2) for x a whole number of cents.  Python
\* multiplies and rounds in binary floating point; away from an exact half
\* cent the result is the nearest cent, and on an exact half cent
\* (x % 50 = 25) it is the lower cent for the stakes listed here and the
\* upper cent otherwise.  The list is complete for stakes up to 20000.
HalfDown ==
    {125, 225, 325, 425, 475, 675, 1075, 1125, 1175, 1475, 1525, 1625, 1725,
     1875, 1975, 2075, 2175, 2325, 2425, 2525, 2775, 2875, 2975, 3175, 3325,
     3375, 3525, 3675, 3725, 3875, 4025, 4075, 4225, 4375, 4425, 4575, 4775,
     4925, 4975, 5125, 5275, 5325, 5475, 5675, 5825, 6025, 6175, 6275, 6425,
     6575, 6725, 6825, 6875, 6975, 7125, 7275, 7375, 7425, 7525, 7675, 7825,
     7975, 8075, 8225, 8375, 8525, 8675, 8775, 8925, 9075, 9225, 9325, 9375,
     9475, 9625, 9775, 9925, 10025, 10175, 10325, 10475, 10575, 10725, 10875,
     11025, 11175, 11275, 11425, 11575, 11725, 11875, 11975, 12125, 12275,
     12425, 12525, 12675, 12825, 12875, 12975, 13025, 13175, 13325, 13475,
     13625, 13775, 13925, 14075, 14125, 14225, 14275, 14375, 14425, 14575,
     14725, 14875, 15025, 15175, 15325, 15375, 15475, 15525, 15675, 15825,
     15975, 16125, 16275, 16425, 16575, 16725, 16775, 16875, 16925, 17075,
     17225, 17375, 17525, 17675, 17825, 17975, 18025, 18175, 18325, 18475,
     18625, 18775, 18925, 19075, 19225, 19275, 19375, 19425, 19575, 19725,
     19875}

Round2_truncating(x) == (x * (100 + increase_rate)) \div 100
Round2(x) ==
    LET p == x * (100 + increase_rate)
        lo == p \div 100
    IN  IF p % 100 = 50
        THEN IF x \in HalfDown THEN lo ELSE lo + 1
        ELSE IF p % 100 > 50 THEN lo + 1 ELSE lo

\* ----------------------------------------------------------------- state
VARIABLES
    num_trades, trade_interval, base_amount,  \* the configuration of the run
    pc,              \* where trading_loop is
    outcome,         \* "running", "returned" or "raised" (unhandled exception)
    attempt,         \* failed connection attempts of the connect_websocket call
    websocket,       \* "none", "open" or "closed"
    pending,         \* requests sent and not yet answered, oldest first
    inbox,           \* the response recv returns next, if it has arrived
    nAuth,           \* authorize requests sent
    authKind,        \* kind of the response authenticate read, "none" before
    authorized,      \* authenticate returned True
    nBuy,            \* buy requests sent
    amount, trades_executed, open_trades,
    growths,         \* times line 129 replaced the stake
    nonNull,         \* placement calls that returned a non-null identifier
    failures,        \* placement calls that were not counted
    errors,          \* placement calls that met an error envelope
    tasks,           \* the monitoring task of each identifier
    waiters,         \* tasks suspended in recv, in arrival order
    nOpen            \* "not sold yet" replies so far

config == <<num_trades, trade_interval, base_amount>>
chan   == <<pending, inbox>>
authv  == <<nAuth, authKind, authorized>>
loopv  == <<nBuy, amount, trades_executed, open_trades, growths, nonNull,
            failures, errors>>
monv   == <<tasks, waiters, nOpen>>
vars   == <<config, pc, outcome, attempt, websocket, chan, authv, loopv, monv>>

IdleTask == [st |-> "idle", res |-> "-"]

Init ==
    /\ num_trades \in 1 .. MaxTrades
    /\ trade_interval \in 1 .. MaxInterval
    /\ base_amount \in BaseAmounts
    /\ pc = "connect"
    /\ outcome = "running"
    /\ attempt = 0
    /\ websocket = "none"
    /\ pending = << >>
    /\ inbox = << >>
    /\ nAuth = 0
    /\ authKind = "none"
    /\ authorized = FALSE
    /\ nBuy = 0
    /\ amount = base_amount
    /\ trades_executed = 0
    /\ open_trades = {}
    /\ growths = 0
    /\ nonNull = 0
    /\ failures = 0
    /\ errors = 0
    /\ tasks = [c \in Ids |-> IdleTask]
    /\ waiters = << >>
    /\ nOpen = 0

\* ------------------------------------------------------ connect_websocket
\* websockets.connect succeeded: the session is returned at once.
connect_ok ==
    /\ pc = "connect"
    /\ websocket' = "open"
    /\ attempt' = 0
    /\ pc' = "auth_send"
    /\ UNCHANGED <<config, outcome, chan, authv, loopv, monv>>

\* ConnectionClosed or InvalidMessage: caught, back off, next attempt; after
\* the last attempt connect returns None and trading_loop returns.
budget_exhausted_off_by_one(a) == a > retry_attempts
budget_exhausted_early(a) == a >= retry_attempts - 1
budget_exhausted(a) == a >= retry_attempts

connect_retry ==
    /\ pc = "connect"
    /\ attempt' = attempt + 1
    /\ IF budget_exhausted(attempt + 1)
       THEN pc' = "done" /\ outcome' = "returned"
       ELSE pc' = "connect" /\ outcome' = outcome
    /\ UNCHANGED <<config, websocket, chan, authv, loopv, monv>>

\* any other exception of websockets.connect (OSError, InvalidHandshake,
\* TimeoutError ...) is not caught by connect_websocket nor by trading_loop.
connect_raise ==
    /\ pc = "connect"
    /\ pc' = "done"
    /\ outcome' = "raised"
    /\ UNCHANGED <<config, attempt, websocket, chan, authv, loopv, monv>>

\* ------------------------------------------------------------ the venue
Resp(c, k, v) == [cid |-> c, kind |-> k, val |-> v]

\* the responses the venue may give to a request.
\*   "ok"        the success envelope of the operation
\*   "error"     an error envelope, {"error": {"message": ...}}
\*   "other"     a JSON object with neither "error" nor the operation's key
\*   "malformed" a message json.loads or the handler's field access rejects
Replies(req) ==
    CASE req.op = "authorize" ->
            {Resp(None, k, 0) : k \in {"ok", "error", "other", "malformed"}}
      [] req.op = "buy" ->
            {Resp(None, "ok", i) : i \in Ids \ {0}}
            \cup {Resp(None, "malformed", 0)}
            \cup (IF failures < MaxFailures
                  THEN {Resp(None, "ok", 0), Resp(None, "error", 0),
                        Resp(None, "other", 0)}
                  ELSE {})
      [] req.op = "status" ->
            {Resp(req.cid, "sold", p) : p \in {-1, 0, 1}}
            \cup {Resp(req.cid, k, 0) : k \in {"sold_bare", "error", "malformed"}}
            \cup (IF nOpen < MaxOpens THEN {Resp(req.cid, "open", 0)} ELSE {})

\* the venue's answer to the oldest unanswered request arrives.
venue_reply ==
    /\ websocket = "open"
    /\ pc # "done"
    /\ pending # << >>
    /\ inbox = << >>
    /\ \E r \in Replies(Head(pending)) :
          /\ inbox' = Append(inbox, r)
          /\ nOpen' = IF r.kind = "open" THEN nOpen + 1 ELSE nOpen
    /\ pending' = Tail(pending)
    /\ UNCHANGED <<config, pc, outcome, attempt, websocket, authv, loopv,
                   tasks, waiters>>

\* ---------------------------------------------------------- authenticate
\* line 45: the authorize request goes out.
authenticate_send ==
    /\ pc = "auth_send"
    /\ pending' = Append(pending,
                         [op |-> "authorize", cid |-> None, price |-> 0])
    /\ nAuth' = nAuth + 1
    /\ pc' = "auth_recv"
    /\ UNCHANGED <<config, outcome, attempt, websocket, inbox, authKind,
                   authorized, loopv, monv>>

\* line 48: what authenticate returns for a response it could decode.
authenticate_result_always(r) == TRUE
authenticate_result(r) == r.kind # "error"

\* line 121: the loop head, reached after authenticate and after every
\* iteration; line 135 starts one task per element of open_trades.
StartTasks_all_but_one(open) ==
    [c \in Ids |-> IF c \in open /\ \E d \in open : d < c
                   THEN [IdleTask EXCEPT !.st = "send"]
                   ELSE IdleTask]
StartTasks(open) ==
    [c \in Ids |-> IF c \in open THEN [IdleTask EXCEPT !.st = "send"]
                   ELSE IdleTask]

\* line 121: the loop goes on while fewer than num_trades are counted.
LoopContinues_one_short(te) == te + 1 < num_trades
LoopContinues(te) == te < num_trades

\* lines 46-52 and 112-118: one response is read; False closes the session
\* and ends the run, True enters the placement loop.
authenticate_recv ==
    /\ pc = "auth_recv"
    /\ inbox # << >>
    /\ LET r == Head(inbox) IN
          /\ r.kind # "malformed"
          /\ inbox' = Tail(inbox)
          /\ authKind' = r.kind
          /\ authorized' = authenticate_result(r)
          /\ IF authenticate_result(r)
             THEN /\ websocket' = websocket
                  /\ outcome' = outcome
                  /\ IF LoopContinues(trades_executed)
                     THEN pc' = "place_send" /\ tasks' = tasks
                     ELSE pc' = "gather" /\ tasks' = StartTasks(open_trades)
             ELSE /\ websocket' = "closed"
                  /\ pc' = "done"
                  /\ outcome' = "returned"
                  /\ tasks' = tasks
    /\ UNCHANGED <<config, attempt, pending, nAuth, loopv, waiters, nOpen>>

\* send or recv raises (the connection dropped): authenticate is called
\* outside the try block, so the exception leaves trading_loop and line 141
\* is not reached.
authenticate_raise ==
    /\ \/ pc = "auth_send"
       \/ pc = "auth_recv"
    /\ pc' = "done"
    /\ outcome' = "raised"
    /\ UNCHANGED <<config, attempt, websocket, chan, authv, loopv, monv>>

\* the response is read but json.loads (line 46) or the access to
\* ['error']['message'] (line 49) raises: the same way out.
authenticate_malformed ==
    /\ pc = "auth_recv"
    /\ inbox # << >>
    /\ Head(inbox).kind = "malformed"
    /\ inbox' = Tail(inbox)
    /\ authKind' = "malformed"
    /\ pc' = "done"
    /\ outcome' = "raised"
    /\ UNCHANGED <<config, attempt, websocket, pending, nAuth, authorized,
                   loopv, monv>>

\* ----------------------------------------------------------- place_trade
\* lines 57-70: the buy request built for a stake.
trade_request_base_stake(amt) ==
    [op |-> "buy", cid |-> None, price |-> base_amount]
trade_request(amt) == [op |-> "buy", cid |-> None, price |-> amt]

\* line 72: the buy request carries the current stake.
place_trade_send ==
    /\ pc = "place_send"
    /\ pending' = Append(pending, trade_request(amount))
    /\ nBuy' = nBuy + 1
    /\ pc' = "place_recv"
    /\ UNCHANGED <<config, outcome, attempt, websocket, inbox, authv, amount,
                   trades_executed, open_trades, growths, nonNull, failures,
                   errors, monv>>

\* lines 75-81: the identifier place_trade returns for a decoded response.
place_trade_result(r) == IF r.kind = "ok" THEN r.val ELSE None

\* line 123: `if contract_id:` counts a placement.
Truthy_any(cid) == TRUE
Truthy(cid) == cid # None /\ cid # 0

\* line 128: the stake grows when the counter is a multiple of the interval.
GrowthDue_always(te, counted) == TRUE
GrowthDue(te, counted) == te % trade_interval = 0

\* lines 73-81 and 123-135: one response is read, the iteration is finished
\* and the loop head is evaluated; leaving the loop starts the monitors.
place_trade_recv ==
    /\ pc = "place_recv"
    /\ inbox # << >>
    /\ LET r == Head(inbox)
           cid == place_trade_result(r)
           counted == Truthy(cid)
           te == IF counted THEN trades_executed + 1 ELSE trades_executed
           open == IF counted THEN open_trades \cup {cid} ELSE open_trades
           grow == GrowthDue(te, counted)
       IN /\ r.kind # "malformed"
          /\ inbox' = Tail(inbox)
          /\ nonNull' = IF cid # None THEN nonNull + 1 ELSE nonNull
          /\ failures' = IF counted THEN failures ELSE failures + 1
          /\ errors' = IF r.kind = "error" THEN errors + 1 ELSE errors
          /\ trades_executed' = te
          /\ open_trades' = open
          /\ amount' = IF grow THEN Round2(amount) ELSE amount
          /\ growths' = IF grow THEN growths + 1 ELSE growths
          /\ IF LoopContinues(te)
             THEN pc' = "place_send" /\ tasks' = tasks
             ELSE pc' = "gather" /\ tasks' = StartTasks(open)
    /\ UNCHANGED <<config, outcome, attempt, websocket, pending, authv,
                   nBuy, waiters, nOpen>>

\* lines 137-142: an exception in the try block is caught and logged, the
\* finally clause closes the session and trading_loop returns.
place_trade_raise ==
    /\ \/ pc = "place_send"
       \/ pc = "place_recv"
    /\ websocket' = "closed"
    /\ pc' = "done"
    /\ outcome' = "returned"
    /\ UNCHANGED <<config, attempt, chan, authv, loopv, monv>>

\* the response is read but json.loads (line 73), the access to
\* ['error']['message'] (line 76) or .get (line 79) raises: caught likewise.
place_trade_malformed ==
    /\ pc = "place_recv"
    /\ inbox # << >>
    /\ Head(inbox).kind = "malformed"
    /\ inbox' = Tail(inbox)
    /\ websocket' = "closed"
    /\ pc' = "done"
    /\ outcome' = "returned"
    /\ UNCHANGED <<config, attempt, pending, authv, loopv, monv>>

\* ---------------------------------------------------- check_trade_result
Without(s, c) == SelectSeq(s, LAMBDA x : x # c)

Finished_keeps_polling(t, res) == [t EXCEPT !.st = "send", !.res = res]
Finished(t, res) == [t EXCEPT !.st = "done", !.res = res]

\* line 88: the status query for a contract.
status_query(c) == [op |-> "status", cid |-> c, price |-> 0]

\* lines 88-89: the status query goes out and the task suspends in recv.
check_trade_result_send(c) ==
    /\ pc = "gather"
    /\ tasks[c].st = "send"
    /\ pending' = Append(pending, status_query(c))
    /\ tasks' = [tasks EXCEPT ![c].st = "recv"]
    /\ waiters' = Append(waiters, c)
    /\ UNCHANGED <<config, pc, outcome, attempt, websocket, inbox, authv,
                   loopv, nOpen>>

\* lines 88-89 and 102: the query goes out, but another task is already
\* suspended in recv and the websocket refuses a second concurrent recv
\* (RuntimeError / ConcurrencyError); the task's own handler ends it.
check_trade_result_send_busy(c) ==
    /\ pc = "gather"
    /\ tasks[c].st = "send"
    /\ waiters # << >>
    /\ pending' = Append(pending, status_query(c))
    /\ tasks' = [tasks EXCEPT ![c] = Finished(@, "exception")]
    /\ UNCHANGED <<config, pc, outcome, attempt, websocket, inbox, authv,
                   loopv, waiters, nOpen>>

\* line 98: the verdict on a sold contract.
Verdict_nonnegative(profit) == IF profit >= 0 THEN "WON" ELSE "LOST"
Verdict(profit) == IF profit > 0 THEN "WON" ELSE "LOST"

\* lines 89-101: the task first in line reads the next response.
check_trade_result_recv(c) ==
    /\ pc = "gather"
    /\ tasks[c].st = "recv"
    /\ waiters # << >>
    /\ Head(waiters) = c
    /\ inbox # << >>
    /\ LET r == Head(inbox) IN
          /\ inbox' = Tail(inbox)
          /\ tasks' = [tasks EXCEPT ![c] =
                CASE r.kind = "error" -> Finished(@, "error")
                  [] r.kind = "malformed" -> Finished(@, "exception")
                  [] r.kind = "sold" -> Finished(@, Verdict(r.val))
                  [] r.kind = "sold_bare" -> Finished(@, Verdict(0))
                  [] OTHER -> [@ EXCEPT !.st = "send"]]
    /\ waiters' = Tail(waiters)
    /\ UNCHANGED <<config, pc, outcome, attempt, websocket, pending, authv,
                   loopv, nOpen>>

check_trade_result_raise_unhandled(c) ==
    /\ pc = "gather"
    /\ tasks[c].st \in {"send", "recv"}
    /\ tasks' = [tasks EXCEPT ![c] = Finished(@, "exception")]
    /\ waiters' = Without(waiters, c)
    /\ websocket' = "closed"
    /\ pc' = "done"
    /\ outcome' = "returned"
    /\ UNCHANGED <<config, attempt, chan, authv, loopv, nOpen>>

\* lines 88-89 and 102: send or recv raises (the connection dropped); the
\* task's own handler logs it and the task ends.
check_trade_result_raise(c) ==
    /\ pc = "gather"
    /\ tasks[c].st \in {"send", "recv"}
    /\ tasks' = [tasks EXCEPT ![c] = Finished(@, "exception")]
    /\ waiters' = Without(waiters, c)
    /\ UNCHANGED <<config, pc, outcome, attempt, websocket, chan, authv,
                   loopv, nOpen>>

trading_loop_close_first_completed ==
    /\ pc = "gather"
    /\ \E c \in Ids : tasks[c].st = "done"
    /\ websocket' = "closed"
    /\ pc' = "done"
    /\ outcome' = "returned"
    /\ UNCHANGED <<config, attempt, chan, authv, loopv, monv>>

\* lines 135-142: gather returns when every task has ended; the finally
\* clause closes the session.
trading_loop_close ==
    /\ pc = "gather"
    /\ \A c \in Ids : tasks[c].st \in {"idle", "done"}
    /\ websocket' = "closed"
    /\ pc' = "done"
    /\ outcome' = "returned"
    /\ UNCHANGED <<config, attempt, chan, authv, loopv, monv>>

\* ----------------------------------------------------------- the system
Next ==
    \/ connect_ok
    \/ connect_retry
    \/ connect_raise
    \/ venue_reply
    \/ authenticate_send
    \/ authenticate_recv
    \/ authenticate_raise
    \/ authenticate_malformed
    \/ place_trade_send
    \/ place_trade_recv
    \/ place_trade_raise
    \/ place_trade_malformed
    \/ \E c \in Ids : check_trade_result_send(c)
    \/ \E c \in Ids : check_trade_result_send_busy(c)
    \/ \E c \in Ids : check_trade_result_recv(c)
    \/ \E c \in Ids : check_trade_result_raise(c)
    \/ trading_loop_close

Spec == Init /\ [][Next]_vars

\* The event loop resumes every task that can run, gather returns once all
\* tasks have returned, and the venue answers every request it received;
\* nothing forces send or recv to raise.
Fairness ==
    /\ WF_vars(venue_reply)
    /\ \A c \in Ids :
          /\ WF_vars(check_trade_result_send(c) \/ check_trade_result_send_busy(c))
          /\ WF_vars(check_trade_result_recv(c))
    /\ WF_vars(trading_loop_close)

\* termination of the fan-out does not depend on the stake: the runs with
\* fairness start from the base stake of the source.
LiveInit == Init /\ base_amount = 10000

LiveSpec == LiveInit /\ [][Next]_vars /\ Fairness

TypeOK ==
    /\ pc \in {"connect", "auth_send", "auth_recv", "place_send",
               "place_recv", "gather", "done"}
    /\ outcome \in {"running", "returned", "raised"}
    /\ websocket \in {"none", "open", "closed"}
    /\ attempt \in 0 .. retry_attempts
    /\ trades_executed \in 0 .. num_trades
    /\ open_trades \subseteq Ids

\* ------------------------------------------------------------ properties
NoTaskStarted == \A c \in Ids : tasks[c].st = "idle"
NothingInFlight == pending = << >> /\ inbox = << >>
InPlacementLoop == pc \in {"place_send", "place_recv"}

\* C1: once connect has returned a session, every way trading_loop can end
\* leaves the session closed.
C1_SessionClosedAtEveryExit ==
    (pc = "done" /\ websocket # "none") => websocket = "closed"

\* C2: on the shared session at most one request is unanswered or
\* unconsumed at any time, and at most one task is between its send and its
\* receive, also during the concurrent settlement phase.
C2_StrictlySequential ==
    /\ Len(pending) + Len(inbox) <= 1
    /\ Cardinality({c \in Ids : tasks[c].st = "recv"}) <= 1

\* C3: at every point of the placement loop the number of growth steps
\* applied to the stake equals floor(trades_executed / trade_interval).
C3_GrowthOncePerInterval ==
    InPlacementLoop => growths = trades_executed \div trade_interval

\* C4: a placement that consumes an error envelope returns None, leaves the
\* trade counter and the open-position set unchanged and does not end the
\* run: the loop is back at its next buy request, the session still open.
C4_ErrorPlacementSkipped ==
    [][(/\ pc = "place_recv"
        /\ inbox # << >>
        /\ Head(inbox).kind = "error"
        /\ inbox' = Tail(inbox))
       => (/\ place_trade_result(Head(inbox)) = None
           /\ trades_executed' = trades_executed
           /\ open_trades' = open_trades
           /\ trades_executed' < num_trades
           /\ pc' = "place_send"
           /\ websocket' = "open"
           /\ outcome' = "running")]_vars

\* a placement met an error envelope and the loop is about to buy again.
C4_Witness ==
    /\ errors >= 1
    /\ pc = "place_send"
    /\ trades_executed < num_trades
    /\ websocket = "open"

\* C5: the open-position set has as many entries as placement calls
\* returned a non-null identifier, and never more than num_trades.
C5_OpenSetCountsPlacements ==
    /\ Cardinality(open_trades) = nonNull
    /\ nonNull <= num_trades

\* C6: when all retry_attempts connection attempts have failed, the run has
\* ended by returning, without a session and without any authorize, buy or
\* status request.
C6_NoSessionNoRequests ==
    attempt = retry_attempts =>
        /\ pc = "done"
        /\ outcome = "returned"
        /\ websocket = "none"
        /\ nAuth = 0
        /\ nBuy = 0
        /\ NoTaskStarted
        /\ NothingInFlight

\* the third attempt has failed.
C6_Witness == attempt = retry_attempts /\ pc = "done"

\* C7: when the authorize response is an error envelope, authenticate
\* returns False and the run has ended with the session closed, no buy
\* request sent and no monitoring task started.
C7_AuthErrorEndsRun ==
    authKind = "error" =>
        /\ ~authorized
        /\ pc = "done"
        /\ outcome = "returned"
        /\ websocket = "closed"
        /\ nAuth = 1
        /\ nBuy = 0
        /\ NoTaskStarted

\* authenticate has read an error envelope.
C7_Witness == authKind = "error" /\ websocket = "closed"

\* C8: authenticate returns True only when the response it read is an
\* explicit success envelope.
C8_TrueOnlyOnSuccess == authorized => authKind = "ok"

\* C9: whatever the components meet, trading_loop ends by returning, never
\* with an unhandled exception.
C9_AlwaysReturns == pc = "done" => outcome = "returned"

\* b is a * (1 + increase_rate) rounded to a cent: within half a cent of it.
NearestCent(a, b) ==
    LET d == 100 * b - (100 + increase_rate) * a IN d >= -50 /\ d <= 50

\* C10 as stated: every growth step replaces the stake by
\* round(stake * (1 + increase_rate), 2) and the new stake is strictly
\* greater than the previous one.
C10_EveryGrowthStrict ==
    [][growths' # growths =>
          (NearestCent(amount, amount') /\ amount' > amount)]_vars

\* C10 amended: the stake changes only by a growth step, a growth step
\* replaces it by round(stake * (1 + increase_rate), 2), the stake never
\* decreases, and it strictly increases when it is at least 25 cents.
C10_StakeGrowth ==
    [][/\ amount' # amount => growths' # growths
       /\ growths' # growths =>
             /\ NearestCent(amount, amount')
             /\ amount >= 25 => amount' > amount
       /\ amount' >= amount]_vars

\* a growth step has raised the stake.
C10_Witness == growths >= 1 /\ amount > base_amount

\* the step that finishes an iteration of the placement loop: the buy
\* response is read and decoded.
IterationEnds ==
    /\ pc = "place_recv"
    /\ inbox # << >>
    /\ Head(inbox).kind # "malformed"
    /\ inbox' = Tail(inbox)

\* C11: an iteration of the placement loop that ends with a trade counter
\* not divisible by trade_interval leaves the stake unchanged, whether its
\* placement succeeded or failed.
C11_NoGrowthOffInterval ==
    [][(IterationEnds /\ trades_executed' % trade_interval # 0)
       => (amount' = amount /\ growths' = growths)]_vars

\* a failed placement has ended an iteration off the interval, after a
\* successful one did.
C11_Witness ==
    /\ pc = "place_send"
    /\ trades_executed % trade_interval # 0
    /\ failures >= 1
    /\ growths = 0

\* the stake after n growth steps from b.
RECURSIVE Grown(_, _)
Grown(b, n) == IF n = 0 THEN b ELSE Round2(Grown(b, n - 1))

\* C12: while every placement has succeeded, the n-th buy request carries
\* the base stake grown floor((n-1) / trade_interval) times; for base 100,
\* rate 0.02 and trade_interval 1 the requests carry 100, 102.0, 104.04.
C12_StakeOfNthRequest ==
    (pending # << >> /\ Head(pending).op = "buy" /\ failures = 0) =>
        LET price == Head(pending).price IN
        /\ price = Grown(base_amount, (nBuy - 1) \div trade_interval)
        /\ nBuy = 1 => price = base_amount
        /\ (base_amount = 10000 /\ trade_interval = 1) =>
              /\ nBuy = 2 => price = 10200
              /\ nBuy = 3 => price = 10404

\* the third request of the scenario is in flight.
C12_Witness ==
    /\ pending # << >>
    /\ Head(pending).op = "buy"
    /\ failures = 0
    /\ base_amount = 10000
    /\ trade_interval = 1
    /\ nBuy = 3

\* the step in which the monitoring task of c reads a response.
ReadsResponse(c) ==
    /\ pc = "gather"
    /\ tasks[c].st = "recv"
    /\ waiters # << >>
    /\ Head(waiters) = c
    /\ inbox # << >>
    /\ inbox' = Tail(inbox)

\* C13: a monitor that is the only one on the session reads the answers to
\* its own queries, ends at the first answer with is_sold = true, reporting
\* WON exactly when the profit is > 0 and LOST otherwise (profit 0 or no
\* profit field), polls again after an answer with is_sold false, and sends
\* nothing once it has ended.
C13_MonitorAlone ==
    [][\A c \in Ids : open_trades = {c} =>
          /\ ReadsResponse(c) =>
                LET r == Head(inbox) IN
                /\ r.cid = c
                /\ r.kind = "sold" =>
                      /\ tasks'[c].st = "done"
                      /\ tasks'[c].res = "WON" <=> r.val > 0
                      /\ tasks'[c].res = "LOST" <=> r.val <= 0
                /\ r.kind = "sold_bare" =>
                      tasks'[c].st = "done" /\ tasks'[c].res = "LOST"
                /\ r.kind = "open" => tasks'[c].st = "send"
          /\ tasks[c].st = "done" =>
                tasks'[c] = tasks[c] /\ Len(pending') <= Len(pending)]_vars

\* a lone monitor was told "not sold yet", polled again and reported WON.
C13_Witness ==
    \E c \in Ids :
        /\ open_trades = {c}
        /\ nOpen >= 1
        /\ tasks[c].st = "done"
        /\ tasks[c].res = "WON"

Started == {c \in Ids : tasks[c].st # "idle"}

\* a task is started only by the fan-out of line 135, which is entered once.
StartedOnlyByFanOut ==
    [][\A c \in Ids :
          /\ tasks[c].st # "idle" => tasks'[c].st # "idle"
          /\ (tasks[c].st = "idle" /\ tasks'[c].st # "idle") =>
                (pc = "place_recv" /\ pc' = "gather" /\ c \in open_trades')
          /\ tasks[c].st = "done" => tasks'[c] = tasks[c]
       /\ pc \in {"gather", "done"} => pc' \in {"gather", "done"}]_vars

\* C14 as stated, its second half: once the placement loop is over, however
\* it ended, a monitoring task has been started for every identifier of the
\* open set.
C14_EveryPositionMonitored ==
    pc \in {"gather", "done"} => Started = open_trades

\* C14 amended: a monitoring task is started at most once per identifier,
\* none before the fan-out, and from the fan-out on the tasks are exactly
\* the distinct identifiers of the open set; a run that ends before the
\* fan-out starts none.
C14_TasksMatchOpenSet ==
    /\ [](Started = IF pc = "gather" \/ (pc = "done" /\ trades_executed = num_trades)
                    THEN open_trades ELSE {})
    /\ StartedOnlyByFanOut

\* the fan-out has started one task for each of two identifiers.
C14_Witness == pc = "gather" /\ Cardinality(open_trades) = 2 /\ Started = open_trades

\* connect_websocket returned None and trading_loop returned at line 110.
ConnectFailed == pc = "done" /\ websocket = "none" /\ outcome = "returned"

\* C15: connect attempts a connection only while fewer than retry_attempts
\* attempts have failed (so at most retry_attempts attempts are made),
\* returns the session of the first successful attempt at once, returns the
\* failure only after exactly retry_attempts failed attempts, and once it
\* has returned or raised no further attempt is made in the run.
C15_ConnectBudget ==
    /\ [](/\ attempt <= retry_attempts
          /\ pc = "connect" => (attempt < retry_attempts /\ websocket = "none")
          /\ ConnectFailed => attempt = retry_attempts)
    /\ [][/\ (pc = "connect" /\ websocket' = "open") => pc' = "auth_send"
          /\ pc # "connect" =>
                /\ pc' # "connect"
                /\ attempt' = attempt
                /\ websocket' \in {websocket, "closed"}]_vars

\* connect has returned a live session and the run goes on to authenticate.
C15_Witness == pc = "auth_send" /\ websocket = "open" /\ nAuth = 0

\* the step in which the monitoring task of c ends on an error envelope or
\* an exception.
EndsInError(c) ==
    /\ tasks[c].st # "done"
    /\ tasks'[c].st = "done"
    /\ tasks'[c].res \in {"error", "exception"}

\* C16: when the monitoring task of one contract ends on an error, the
\* other tasks are left as they are (not cancelled, still able to poll),
\* the session stays open and the run goes on waiting for them.
C16_ErrorEndsOnlyThatTask ==
    [][\A c \in Ids : EndsInError(c) =>
          /\ \A d \in Ids \ {c} : tasks'[d] = tasks[d]
          /\ pc' = "gather"
          /\ websocket' = "open"
          /\ outcome' = "running"]_vars

\* one task has ended on an error envelope while another is still polling.
C16_Witness ==
    \E c, d \in Ids :
        /\ tasks[c].res = "error"
        /\ tasks[d].st \in {"send", "recv"}
        /\ pc = "gather"
        /\ websocket = "open"

Running == {c \in Ids : tasks[c].st \in {"send", "recv"}}

\* C17: the session is never closed while a monitoring task is still
\* running, and the step that closes it after the fan-out finds every task
\* ended.
C17_CloseAfterAllTasks ==
    /\ websocket = "closed" => Running = {}
    /\ (pc = "done" /\ Started # {}) => (websocket = "closed" /\ Running = {})

\* the session has been closed after two monitoring tasks ended.
C17_Witness ==
    /\ websocket = "closed"
    /\ Cardinality(Started) = 2
    /\ \A c \in Started : tasks[c].st = "done"

\* C18: every response the monitoring task of contract c reads is the
\* venue's answer to a status query for c, so what the task reports is what
\* the venue said about c.
C18_ReadsOwnAnswer ==
    [][\A c \in Ids : ReadsResponse(c) => Head(inbox).cid = c]_vars

\* C19: once the fan-out has started, with a venue that answers every query
\* and stops answering "not sold yet" after MaxOpens such answers, every
\* monitoring task eventually ends and the session is eventually closed.
C19_FanOutTerminates ==
    (pc = "gather") ~>
        (pc = "done" /\ websocket = "closed" /\ Running = {})

\* the run has ended after a fan-out of two tasks in which the venue first
\* answered "not sold yet".
C19_Witness ==
    /\ pc = "done"
    /\ websocket = "closed"
    /\ nOpen >= 1
    /\ Cardinality(Started) = 2
    /\ Running = {}

\* the step sends a request of kind op.
Sends(op) ==
    /\ Len(pending') = Len(pending) + 1
    /\ pending'[Len(pending')].op = op

\* C20: the phases are ordered.  A buy request or status query is sent only
\* after authenticate returned True; a status query only when num_trades
\* placements are counted and the fan-out has started; a buy request only
\* before the fan-out; every request only while the session is open; and
\* once the session is closed nothing is sent.
C20_PhasesOrdered ==
    [][/\ \A op \in {"authorize", "buy", "status"} :
             Sends(op) => (websocket = "open" /\ websocket' = "open")
       /\ Sends("authorize") => (~authorized /\ nBuy = 0 /\ Started = {})
       /\ Sends("buy") =>
             /\ authorized
             /\ trades_executed < num_trades
             /\ pc = "place_send"
             /\ Started = {}
       /\ Sends("status") =>
             /\ authorized
             /\ trades_executed = num_trades
             /\ pc = "gather"
       /\ websocket = "closed" => (pending' = pending /\ websocket' = "closed")
       /\ Started # {} => nBuy' = nBuy]_vars

\* a status query is in flight after authorize and num_trades placements.
C20_Witness ==
    /\ pc = "gather"
    /\ pending # << >>
    /\ Head(pending).op = "status"
    /\ nAuth = 1
    /\ nBuy >= num_trades
    /\ num_trades >= 2
====
